---- MODULE Spec2Model ----
(***************************************************************************)
(* Model of the package-dependency graph pipeline:                         *)
(*   combine_dependencies.py  - edge list parser, layer list parser,       *)
(*                              combiner, interchange report writer        *)
(*   import_to_neo4j.py       - interchange report reader, namespaced      *)
(*                              graph importer and its entry point main()  *)
(*                                                                         *)
(* Text is modelled as sequences of one-character strings, so that the     *)
(* string operations of the source (strip, replace, split, startswith,     *)
(* the two regular expressions) are computed character by character.       *)
(***************************************************************************)
EXTENDS Integers, Sequences, FiniteSets, Bags, TLC

\* --------------------------------------------------------------------------
\* Bounds of the model
\* --------------------------------------------------------------------------

\* number of pieces a raw name is concatenated from (normalization inputs)
MaxPieces == 4

\* number of lines of the edge list input
MaxEdges == 2

\* number of lines of the layer list input
MaxLayerLines == 2

\* number of runs of the importer entry point in one behaviour
MaxRuns == 2

\* lines of a layer list given to the layer list parser alone
MaxLayerFile == 4

\* lines of a report given to the reader alone
MaxReportLines == 4

\* --------------------------------------------------------------------------
\* Characters and strings
\* --------------------------------------------------------------------------

\* the characters str.strip(), str.split() and the regex class \s treat as
\* whitespace: U+0009..U+000D, U+001C..U+0020, U+0085, U+00A0 and U+1680,
\* those from U+000B on other than the form feed and the space written
\* verbatim. The whitespace from U+2000 on (U+2000..U+200A, U+2028, U+2029,
\* U+202F, U+205F, U+3000), which a TLA+ string cannot hold, is left out.
Whitespace ==
  { "\t", "\n", "\f", "\r", " ",
    "", "", "", "", "", "", " ", " " }

\* the ASCII characters and the whitespace above them in ascending code point
\* order (Python compares strings by code point); the grave accent, which a
\* TLA+ string cannot hold, is left out
CodePoints ==
  << "\t", "\n", "", "\f", "\r", "", "", "", "",
     " ", "!", "\"", "#", "$", "%", "&", "'", "(", ")",
     "*", "+", ",", "-", ".", "/", "0", "1", "2", "3", "4", "5", "6", "7",
     "8", "9", ":", ";", "<", "=", ">", "?", "@", "A", "B", "C", "D", "E",
     "F", "G", "H", "I", "J", "K", "L", "M", "N", "O", "P", "Q", "R", "S",
     "T", "U", "V", "W", "X", "Y", "Z", "[", "\\", "]", "^", "_", "a",
     "b", "c", "d", "e", "f", "g", "h", "i", "j", "k", "l", "m", "n", "o",
     "p", "q", "r", "s", "t", "u", "v", "w", "x", "y", "z", "{", "|", "}",
     "~", "", " ", " " >>

Ord(c) == CHOOSE i \in DOMAIN CodePoints : CodePoints[i] = c

\* a < b for two strings, as Python's str.__lt__
StrLess(a, b) ==
  LET differ == {i \in DOMAIN a \cap DOMAIN b : a[i] # b[i]}
  IN  IF differ = {} THEN Len(a) < Len(b)
      ELSE LET i == CHOOSE k \in differ : \A j \in differ : k <= j
           IN  Ord(a[i]) < Ord(b[i])

\* sorted(S) for a set of strings: the smaller strings, one element, the
\* greater strings
RECURSIVE Sorted(_)
Sorted(S) ==
  IF S = {} THEN <<>>
  ELSE LET x == CHOOSE y \in S : TRUE
       IN  Sorted({y \in S : StrLess(y, x)}) \o <<x>> \o
           Sorted({y \in S : StrLess(x, y)})

\* s.startswith(p)
StartsWith(s, p) == Len(s) >= Len(p) /\ SubSeq(s, 1, Len(p)) = p

\* s.endswith(p)
EndsWith(s, p) ==
  Len(s) >= Len(p) /\ SubSeq(s, Len(s) - Len(p) + 1, Len(s)) = p

\* s.lstrip()
RECURSIVE LStrip(_)
LStrip(s) ==
  IF s # <<>> /\ Head(s) \in Whitespace THEN LStrip(Tail(s)) ELSE s

\* s.rstrip()
RECURSIVE RStrip(_)
RStrip(s) ==
  IF s # <<>> /\ s[Len(s)] \in Whitespace
  THEN RStrip(SubSeq(s, 1, Len(s) - 1)) ELSE s

\* s.strip()
Strip(s) == LStrip(RStrip(s))

\* s.replace(old, new) for a non-empty old: every non-overlapping
\* occurrence, left to right
RECURSIVE Replace(_, _, _)
Replace(s, old, new) ==
  LET found == {i \in 1..(Len(s) - Len(old) + 1) :
                  SubSeq(s, i, i + Len(old) - 1) = old}
  IN  IF found = {} THEN s
      ELSE LET i == CHOOSE k \in found : \A j \in found : k <= j
           IN  SubSeq(s, 1, i - 1) \o new \o
               Replace(SubSeq(s, i + Len(old), Len(s)), old, new)

\* s.split(sep) for a one-character separator
RECURSIVE SplitOn(_, _)
SplitOn(s, sep) ==
  IF \A i \in DOMAIN s : s[i] # sep THEN <<s>>
  ELSE LET i == CHOOSE k \in DOMAIN s :
                   s[k] = sep /\ \A j \in 1..(k - 1) : s[j] # sep
       IN  <<SubSeq(s, 1, i - 1)>> \o SplitOn(SubSeq(s, i + 1, Len(s)), sep)

\* s.split(): the whitespace-delimited tokens of s
RECURSIVE SplitWs(_)
SplitWs(s) ==
  LET t == LStrip(s)
  IN  IF t = <<>> THEN <<>>
      ELSE LET ends == {k \in DOMAIN t : t[k] \in Whitespace}
               n == IF ends = {} THEN Len(t) + 1
                    ELSE CHOOSE k \in ends : \A j \in ends : k <= j
           IN  <<SubSeq(t, 1, n - 1)>> \o SplitWs(SubSeq(t, n, Len(t)))

\* the concatenation of a sequence of sequences, by halves
RECURSIVE Concat(_)
Concat(parts) ==
  IF parts = <<>> THEN <<>>
  ELSE IF Len(parts) = 1 THEN parts[1]
  ELSE LET half == Len(parts) \div 2
       IN  Concat(SubSeq(parts, 1, half)) \o
           Concat(SubSeq(parts, half + 1, Len(parts)))

\* sep.join(parts)
Join(parts, sep) ==
  Concat([i \in DOMAIN parts |->
            IF i = 1 THEN parts[i] ELSE sep \o parts[i]])

\* y, once x has been evaluated: the order of evaluation of a loop
Then(x, y) == IF x = x THEN y ELSE y

\* first index k >= from with s[k] in the set cs, or Len(s) + 1
FirstIn(s, from, cs) ==
  LET hits == {k \in from..Len(s) : s[k] \in cs}
  IN  IF hits = {} THEN Len(s) + 1
      ELSE CHOOSE k \in hits : \A j \in hits : k <= j

\* first index k >= from with s[k] not in the set cs, or Len(s) + 1
FirstNotIn(s, from, cs) ==
  LET hits == {k \in from..Len(s) : s[k] \notin cs}
  IN  IF hits = {} THEN Len(s) + 1
      ELSE CHOOSE k \in hits : \A j \in hits : k <= j

\* y, with x evaluated first: a loop that threads its state through a
\* recursion evaluates each iteration before it starts the next

\* --------------------------------------------------------------------------
\* Dictionaries: insertion-ordered sequences of [k, v] entries
\* --------------------------------------------------------------------------

Keys(d) == {d[i].k : i \in DOMAIN d}

\* d.get(k, default)
Get(d, k, default) ==
  IF k \in Keys(d) THEN d[CHOOSE i \in DOMAIN d : d[i].k = k].v ELSE default

\* d[k] = v
Put(d, k, v) ==
  IF k \in Keys(d)
  THEN LET i == CHOOSE j \in DOMAIN d : d[j].k = k
       IN  SubSeq(d, 1, i - 1) \o <<[k |-> k, v |-> v]>>
             \o SubSeq(d, i + 1, Len(d))
  ELSE Append(d, [k |-> k, v |-> v])

\* d1 == d2 for two dicts (the order of insertion does not matter)
DictEq(d1, d2) ==
  /\ Keys(d1) = Keys(d2)
  /\ \A k \in Keys(d1) : Get(d1, k, <<>>) = Get(d2, k, <<>>)

\* --------------------------------------------------------------------------
\* Literal text of the two programs
\* --------------------------------------------------------------------------

Quote == "\""

Lib32Prefix == <<"l", "i", "b", "3", "2", "-">>

WarningMark == <<"W", "A", "R", "N", "I", "N", "G", ":">>

NoteMark == <<"N", "O", "T", "E", ":">>

SummaryMark == <<"S", "u", "m", "m", "a", "r", "y", ":">>

TitleLine ==
  <<"P", "a", "c", "k", "a", "g", "e", " ", "D", "e", "p", "e", "n", "d", "e",
    "n", "c", "y", " ", "a", "n", "d", " ", "L", "a", "y", "e", "r", " ", "I",
    "n", "f", "o", "r", "m", "a", "t", "i", "o", "n">>

\* width of the rule line under the title
RuleWidth == 80

RuleLine == [i \in 1..RuleWidth |-> "="]

PackageMark == <<"P", "a", "c", "k", "a", "g", "e", ":", " ">>

LayersMark == <<"L", "a", "y", "e", "r", "s", ":", " ">>

NotFoundMark ==
  <<"(", "n", "o", "t", " ", "f", "o", "u", "n", "d", " ", "i", "n", " ", "p",
    "a", "c", "k", "a", "g", "e", "-", "l", "a", "y", "e", "r", "s", ".", "t",
    "x", "t", ")">>

DependenciesMark ==
  <<"D", "e", "p", "e", "n", "d", "e", "n", "c", "i", "e", "s", ":">>

DependenciesNone ==
  <<"D", "e", "p", "e", "n", "d", "e", "n", "c", "i", "e", "s", ":", " ", "n",
    "o", "n", "e">>

DepMark == <<"-", " ">>

LayersOpen == <<" ", "(", "l", "a", "y", "e", "r", "s", ":", " ">>

LayerUnknown ==
  <<" ", "(", "l", "a", "y", "e", "r", ":", " ", "u", "n", "k", "n", "o", "w",
    "n", ")">>

CommaSpace == <<",", " ">>

Indent2 == <<" ", " ">>

Indent4 == <<" ", " ", " ", " ">>

\* Python's None, distinct from every string (a string is a sequence of
\* one-character elements)
None == <<"None">>

\* truth value of an optional string: None and '' are false
Truthy(x) == x # None /\ x # <<>>

\* --------------------------------------------------------------------------
\* combine_dependencies.py
\* --------------------------------------------------------------------------

\* re.match(r'"([^"]+)"\s*->\s*"([^"]+)"', s): the two groups of the match at
\* the start of s, or no match
EdgeMatch(s) ==
  LET n  == Len(s)
      e1 == FirstIn(s, 2, {Quote})
      a  == FirstNotIn(s, e1 + 1, Whitespace)
      b  == FirstNotIn(s, a + 2, Whitespace)
      e2 == FirstIn(s, b + 1, {Quote})
      ok == /\ n >= 1 /\ s[1] = Quote
            /\ e1 <= n /\ e1 >= 3
            /\ a + 1 <= n /\ s[a] = "-" /\ s[a + 1] = ">"
            /\ b <= n /\ s[b] = Quote
            /\ e2 <= n /\ e2 >= b + 2
  IN  IF ok THEN [matched |-> TRUE, g1 |-> SubSeq(s, 2, e1 - 1),
                  g2 |-> SubSeq(s, b + 1, e2 - 1)]
      ELSE [matched |-> FALSE, g1 |-> <<>>, g2 |-> <<>>]

\* the name normalization of both parsers: name.replace('lib32-', '')
RemoveLib32(name) == Replace(name, Lib32Prefix, <<>>)

\* one iteration of the loop of parse_dot_file
ParseDotLine(deps, line) ==
  LET m == EdgeMatch(Strip(line))
  IN  IF m.matched
      THEN LET pkg_from == RemoveLib32(m.g1)
               pkg_to   == RemoveLib32(m.g2)
           IN  Put(deps, pkg_from, Get(deps, pkg_from, {}) \cup {pkg_to})
      ELSE deps

\* the loop of parse_dot_file, carried over lines by halves
RECURSIVE ParseDotFrom(_, _)
ParseDotFrom(deps, lines) ==
  IF lines = <<>> THEN deps
  ELSE IF Len(lines) = 1 THEN ParseDotLine(deps, lines[1])
  ELSE LET half == Len(lines) \div 2
           mid == ParseDotFrom(deps, SubSeq(lines, 1, half))
       IN  Then(mid, ParseDotFrom(mid, SubSeq(lines, half + 1, Len(lines))))

\* parse_dot_file: the lines of the edge list -> dict name -> set of names
parse_dot_file(lines) == ParseDotFrom(<<>>, lines)

\* one iteration of the loop of parse_layers_file; st = [package_layers,
\* current_package]
ParseLayersLine(st, raw) ==
  LET line == Strip(raw)
  IN  IF \/ line = <<>>
         \/ StartsWith(line, WarningMark)
         \/ StartsWith(line, NoteMark)
         \/ StartsWith(line, SummaryMark)
      THEN st
      ELSE IF EndsWith(line, <<":">>)
      THEN [st EXCEPT !.current_package =
                        RemoveLib32(SubSeq(line, 1, Len(line) - 1))]
      ELSE IF Truthy(st.current_package) /\ line # <<>>
      THEN LET parts == SplitWs(line)
           IN  IF parts # <<>>
               THEN [st EXCEPT !.package_layers =
                       Put(st.package_layers, st.current_package,
                           Append(Get(st.package_layers,
                                      st.current_package, <<>>),
                                  parts[1]))]
               ELSE st
      ELSE st

\* the loop of parse_layers_file, carried over lines by halves
RECURSIVE ParseLayersFrom(_, _)
ParseLayersFrom(st, lines) ==
  IF lines = <<>> THEN st
  ELSE IF Len(lines) = 1 THEN ParseLayersLine(st, lines[1])
  ELSE LET half == Len(lines) \div 2
           mid == ParseLayersFrom(st, SubSeq(lines, 1, half))
       IN  Then(mid, ParseLayersFrom(mid, SubSeq(lines, half + 1, Len(lines))))

\* parse_layers_file: the lines of the layer list -> dict name -> list of
\* layer labels
parse_layers_file(lines) ==
  ParseLayersFrom([package_layers |-> <<>>, current_package |-> None],
                  lines).package_layers

\* (mutant) the dependency targets are not added
AllPackagesNoTargets(deps, package_layers) ==
  Keys(deps) \cup Keys(package_layers)

\* the names combine_data makes records for
AllPackages(deps, package_layers) ==
  Keys(deps) \cup Keys(package_layers)
    \cup UNION {deps[i].v : i \in DOMAIN deps}

\* combine_data: one record per name, inserted in sorted order
combine_data(deps, package_layers) ==
  LET order == Sorted(AllPackages(deps, package_layers))
  IN  [i \in DOMAIN order |->
         [k |-> order[i],
          v |-> [dependencies |-> Sorted(Get(deps, order[i], {})),
                 layers       |-> Get(package_layers, order[i], <<>>)]]]

\* the lines output_combined_data writes for the dependencies of one record
DependencyLines(combined_data, info) ==
  IF info.dependencies # <<>>
  THEN <<Indent2 \o DependenciesMark>> \o
       [i \in DOMAIN info.dependencies |->
          LET dep == info.dependencies[i]
              dep_layers ==
                Get(combined_data, dep,
                    [dependencies |-> <<>>, layers |-> <<>>]).layers
          IN  IF dep_layers # <<>>
              THEN Indent4 \o DepMark \o dep \o LayersOpen
                     \o Join(dep_layers, CommaSpace) \o <<")">>
              ELSE Indent4 \o DepMark \o dep \o LayerUnknown]
  ELSE <<Indent2 \o DependenciesNone>>

\* the lines output_combined_data writes for one record
PackageBlock(combined_data, package, info) ==
  <<PackageMark \o package>> \o
  << IF info.layers # <<>>
     THEN Indent2 \o LayersMark \o Join(info.layers, CommaSpace)
     ELSE Indent2 \o LayersMark \o NotFoundMark >> \o
  DependencyLines(combined_data, info) \o
  << <<>> >>

\* the loop of output_combined_data over the sorted package names
PackageBlocks(combined_data, order) ==
  Concat([i \in DOMAIN order |->
            PackageBlock(combined_data, order[i],
                         Get(combined_data, order[i], <<>>))])

\* output_combined_data: the lines of the interchange report
output_combined_data(combined_data) ==
  <<TitleLine, RuleLine, <<>> >> \o
  PackageBlocks(combined_data, Sorted(Keys(combined_data)))

\* --------------------------------------------------------------------------
\* import_to_neo4j.py: the reader of the interchange report
\* --------------------------------------------------------------------------

\* re.match(r'\s*-\s*([^\s(]+)', line): the group of the match at the start
\* of line, or no match
DepMatch(line) ==
  LET n == Len(line)
      a == FirstNotIn(line, 1, Whitespace)
      b == FirstNotIn(line, a + 1, Whitespace)
      e == FirstIn(line, b, Whitespace \cup {"("})
      ok == a <= n /\ line[a] = "-" /\ b <= n /\ e >= b + 1
  IN  IF ok THEN [matched |-> TRUE, g1 |-> SubSeq(line, b, e - 1)]
      ELSE [matched |-> FALSE, g1 |-> <<>>]

\* [l.strip() for l in layers_str.split(',')]
SplitLayers(layers_str) ==
  LET parts == SplitOn(layers_str, ",")
  IN  [i \in DOMAIN parts |-> Strip(parts[i])]

\* (mutant) a Package line does not leave the dependencies block
ParseCombinedLineKeepsBlock(st, raw) ==
  LET line == RStrip(raw)
      cur  == st.current_package
  IN  IF StartsWith(line, TitleLine) \/ StartsWith(line, <<"=">>)
      THEN st
      ELSE IF StartsWith(line, PackageMark)
      THEN LET name == Strip(Replace(line, PackageMark, <<>>))
           IN  [packages |-> Put(st.packages, name,
                                 [layers |-> <<>>, dependencies |-> <<>>]),
                current_package |-> name,
                in_dependencies |-> st.in_dependencies]
      ELSE IF StartsWith(Strip(line), LayersMark) /\ Truthy(cur)
      THEN LET layers_str == Replace(Strip(line), LayersMark, <<>>)
           IN  IF layers_str # NotFoundMark
               THEN [st EXCEPT !.packages =
                       Put(st.packages, cur,
                           [Get(st.packages, cur, <<>>)
                              EXCEPT !.layers = SplitLayers(layers_str)])]
               ELSE st
      ELSE IF Strip(line) = DependenciesMark /\ Truthy(cur)
      THEN [st EXCEPT !.in_dependencies = TRUE]
      ELSE IF st.in_dependencies /\ StartsWith(Strip(line), DepMark)
      THEN LET dep_match == DepMatch(line)
           IN  IF dep_match.matched
               THEN [st EXCEPT !.packages =
                       Put(st.packages, cur,
                           [Get(st.packages, cur, <<>>)
                              EXCEPT !.dependencies =
                                Append(@, dep_match.g1)])]
               ELSE st
      ELSE IF Strip(line) = DependenciesNone /\ Truthy(cur)
      THEN [st EXCEPT !.in_dependencies = FALSE]
      ELSE st

\* one iteration of the loop of parse_combined_output; st = [packages,
\* current_package, in_dependencies]
ParseCombinedLine(st, raw) ==
  LET line == RStrip(raw)
      cur  == st.current_package
  IN  IF StartsWith(line, TitleLine) \/ StartsWith(line, <<"=">>)
      THEN st
      ELSE IF StartsWith(line, PackageMark)
      THEN LET name == Strip(Replace(line, PackageMark, <<>>))
           IN  [packages |-> Put(st.packages, name,
                                 [layers |-> <<>>, dependencies |-> <<>>]),
                current_package |-> name,
                in_dependencies |-> FALSE]
      ELSE IF StartsWith(Strip(line), LayersMark) /\ Truthy(cur)
      THEN LET layers_str == Replace(Strip(line), LayersMark, <<>>)
           IN  IF layers_str # NotFoundMark
               THEN [st EXCEPT !.packages =
                       Put(st.packages, cur,
                           [Get(st.packages, cur, <<>>)
                              EXCEPT !.layers = SplitLayers(layers_str)])]
               ELSE st
      ELSE IF Strip(line) = DependenciesMark /\ Truthy(cur)
      THEN [st EXCEPT !.in_dependencies = TRUE]
      ELSE IF st.in_dependencies /\ StartsWith(Strip(line), DepMark)
      THEN LET dep_match == DepMatch(line)
           IN  IF dep_match.matched
               THEN [st EXCEPT !.packages =
                       Put(st.packages, cur,
                           [Get(st.packages, cur, <<>>)
                              EXCEPT !.dependencies =
                                Append(@, dep_match.g1)])]
               ELSE st
      ELSE IF Strip(line) = DependenciesNone /\ Truthy(cur)
      THEN [st EXCEPT !.in_dependencies = FALSE]
      ELSE st

\* the loop of parse_combined_output, carried over lines by halves
RECURSIVE ParseCombinedFrom(_, _)
ParseCombinedFrom(st, lines) ==
  IF lines = <<>> THEN st
  ELSE IF Len(lines) = 1 THEN ParseCombinedLine(st, lines[1])
  ELSE LET half == Len(lines) \div 2
           mid == ParseCombinedFrom(st, SubSeq(lines, 1, half))
       IN  Then(mid, ParseCombinedFrom(mid, SubSeq(lines, half + 1, Len(lines))))

\* parse_combined_output: the lines of the report -> dict name -> record
parse_combined_output(lines) ==
  ParseCombinedFrom([packages |-> <<>>, current_package |-> None,
                     in_dependencies |-> FALSE], lines).packages

\* --------------------------------------------------------------------------
\* import_to_neo4j.py: the graph store and the statements issued to it
\* --------------------------------------------------------------------------
\* A store is [nodes, rels]: a bag of nodes [label, name, namespace] and a
\* bag of relationships [type, from, to, namespace], from and to being nodes.
\* A statement is [op, a, b, namespace].

EmptyStore == [nodes |-> EmptyBag, rels |-> EmptyBag]

Node(label, name, namespace) ==
  [label |-> label, name |-> name, namespace |-> namespace]

Rel(type, from, to, namespace) ==
  [type |-> type, from |-> from, to |-> to, namespace |-> namespace]

Stmt(op, a, b, namespace) ==
  [op |-> op, a |-> a, b |-> b, namespace |-> namespace]

\* (mutant) the match forgets the namespace property
MatchNodesAnyNamespace(nodes, label, name, namespace) ==
  {n \in BagToSet(nodes) : n.label = label /\ n.name = name}

\* (mutant) the match has no label: a Package and a Layer of one name in one
\* namespace are the same node
MatchNodesAnyLabel(nodes, label, name, namespace) ==
  {n \in BagToSet(nodes) : n.name = name /\ n.namespace = namespace}

\* MATCH (n:label {name: $name, namespace: $namespace})
MatchNodes(nodes, label, name, namespace) ==
  {n \in BagToSet(nodes) :
     n.label = label /\ n.name = name /\ n.namespace = namespace}

\* (mutant) CREATE in place of MERGE: a node is added on every run
CreateNode(store, label, name, namespace) ==
  [store EXCEPT !.nodes = @ (+) SetToBag({Node(label, name, namespace)})]

\* (mutant) the node is deleted with its relationships and created again
ReplaceNode(store, label, name, namespace) ==
  LET node == Node(label, name, namespace)
  IN  [nodes |-> [n \in BagToSet(store.nodes) \cup {node} |->
                    IF n = node THEN 1 ELSE store.nodes[n]],
       rels  |-> [r \in {q \in BagToSet(store.rels) :
                           q.from # node /\ q.to # node} |-> store.rels[r]]]

\* (mutant) the node is merged on its name alone and its namespace is set
\* afterwards: a node of that name in another namespace is taken over
MergeNodeByName(store, label, name, namespace) ==
  LET same == {n \in BagToSet(store.nodes) : n.label = label /\ n.name = name}
  IN  [store EXCEPT !.nodes =
         [n \in (BagToSet(@) \ same) \cup {Node(label, name, namespace)} |->
            IF n \in same \/ ~BagIn(n, @) THEN 1 ELSE @[n]]]

\* MERGE (n:label {name: $name, namespace: $namespace})
MergeNode(store, label, name, namespace) ==
  IF MatchNodes(store.nodes, label, name, namespace) = {}
  THEN [store EXCEPT !.nodes = @ (+) SetToBag({Node(label, name, namespace)})]
  ELSE store

\* (mutant) CREATE in place of MERGE: a relationship is added on every run
CreateRels(store, type, froms, tos, namespace) ==
  [store EXCEPT !.rels =
     @ (+) SetToBag({Rel(type, p, q, namespace) : p \in froms, q \in tos})]

\* MERGE (p)-[:type {namespace: $namespace}]->(q) for every matched row (p, q)
MergeRels(store, type, froms, tos, namespace) ==
  LET wanted == {Rel(type, p, q, namespace) : p \in froms, q \in tos}
      absent == {r \in wanted : ~BagIn(r, store.rels)}
  IN  [store EXCEPT !.rels = @ (+) SetToBag(absent)]

\* the BELONGS_TO statement of import_data
MergeBelongsTo(store, package_name, layer_name, namespace) ==
  MergeRels(store, "BELONGS_TO",
            MatchNodes(store.nodes, "Package", package_name, namespace),
            MatchNodes(store.nodes, "Layer", layer_name, namespace),
            namespace)

\* (mutant) the target is part of the merged pattern, so a missing target
\* node is created with the relationship
MergeDependsOnPath(store, package_name, dependency_name, namespace) ==
  LET target == Node("Package", dependency_name, namespace)
      froms == MatchNodes(store.nodes, "Package", package_name, namespace)
      with == IF froms # {} /\ ~BagIn(target, store.nodes)
              THEN [store EXCEPT !.nodes = @ (+) SetToBag({target})]
              ELSE store
  IN  MergeRels(with, "DEPENDS_ON", froms,
                MatchNodes(with.nodes, "Package", dependency_name, namespace),
                namespace)

\* the DEPENDS_ON statement of import_data
MergeDependsOn(store, package_name, dependency_name, namespace) ==
  MergeRels(store, "DEPENDS_ON",
            MatchNodes(store.nodes, "Package", package_name, namespace),
            MatchNodes(store.nodes, "Package", dependency_name, namespace),
            namespace)

\* the bag restricted to the elements of keep
BagOnly(bag, keep) == [e \in BagToSet(bag) \cap keep |-> bag[e]]

\* MATCH (n) WHERE n.namespace = $namespace DETACH DELETE n
DetachDeleteNamespace(store, namespace) ==
  [nodes |-> BagOnly(store.nodes,
                     {n \in BagToSet(store.nodes) :
                        n.namespace # namespace}),
   rels  |-> BagOnly(store.rels,
                     {r \in BagToSet(store.rels) :
                        /\ r.from.namespace # namespace
                        /\ r.to.namespace # namespace})]

\* clear_database(namespace): namespace is None when the argument is omitted
clear_database(store, namespace) ==
  IF Truthy(namespace)
  THEN DetachDeleteNamespace(store, namespace)
  ELSE EmptyStore

\* the effect of one statement of import_data on the store
Execute(store, stmt) ==
  IF stmt.op = "MERGE_LAYER"
  THEN MergeNode(store, "Layer", stmt.a, stmt.namespace)
  ELSE IF stmt.op = "MERGE_PACKAGE"
  THEN MergeNode(store, "Package", stmt.a, stmt.namespace)
  ELSE IF stmt.op = "BELONGS_TO"
  THEN MergeBelongsTo(store, stmt.a, stmt.b, stmt.namespace)
  ELSE IF stmt.op = "DEPENDS_ON"
  THEN MergeDependsOn(store, stmt.a, stmt.b, stmt.namespace)
  ELSE store

\* all_layers of import_data
AllLayers(packages) ==
  UNION {{packages[i].v.layers[j] : j \in DOMAIN packages[i].v.layers} :
           i \in DOMAIN packages}

\* the statements of the loop over all_layers, in the iteration order given
LayerStatements(order, namespace) ==
  [i \in DOMAIN order |-> Stmt("MERGE_LAYER", order[i], <<>>, namespace)]

\* the statements of the first loop over packages_data.items()
PackageStatements(packages, namespace) ==
  Concat([i \in DOMAIN packages |->
            LET package_name == packages[i].k
                layers == packages[i].v.layers
            IN  <<Stmt("MERGE_PACKAGE", package_name, <<>>, namespace)>> \o
                [j \in DOMAIN layers |->
                   Stmt("BELONGS_TO", package_name, layers[j], namespace)]])

\* the statements of the second loop over packages_data.items()
DependencyStatements(packages, namespace) ==
  Concat([i \in DOMAIN packages |->
            LET package_name == packages[i].k
                deps == packages[i].v.dependencies
            IN  [j \in DOMAIN deps |->
                   Stmt("DEPENDS_ON", package_name, deps[j], namespace)]])

\* (mutant) one loop over the records: the DEPENDS_ON statements of a package
\* follow its MERGE, before the packages of later records are merged
ImportStatementsOneLoop(packages, namespace, layer_order) ==
  LayerStatements(layer_order, namespace) \o
  Concat([i \in DOMAIN packages |->
            PackageStatements(<<packages[i]>>, namespace) \o
            DependencyStatements(<<packages[i]>>, namespace)])

\* the statements import_data issues, in order; layer_order is the order in
\* which the set all_layers is iterated
ImportStatements(packages, namespace, layer_order) ==
  LayerStatements(layer_order, namespace) \o
  PackageStatements(packages, namespace) \o
  DependencyStatements(packages, namespace)

\* the orders in which a set can be iterated
Orders(S) ==
  {s \in [1..Cardinality(S) -> S] : \A x \in S : \E i \in DOMAIN s : s[i] = x}

\* the statements run in order, carried over stmts by halves
RECURSIVE ExecuteAll(_, _)
ExecuteAll(store, stmts) ==
  IF stmts = <<>> THEN store
  ELSE IF Len(stmts) = 1 THEN Execute(store, stmts[1])
  ELSE LET half == Len(stmts) \div 2
           mid == ExecuteAll(store, SubSeq(stmts, 1, half))
       IN  Then(mid, ExecuteAll(mid, SubSeq(stmts, half + 1, Len(stmts))))

\* import_data run to completion on a store
import_data(store, packages, namespace) ==
  ExecuteAll(store,
             ImportStatements(packages, namespace,
                              Sorted(AllLayers(packages))))

\* --------------------------------------------------------------------------
\* State
\* --------------------------------------------------------------------------

VARIABLES
  \* combine_dependencies.py main(): position and locals
  tpc,              \* "start", "dot", "layers", "combined", "written", "read"
  dot_lines,        \* the lines of the edge list input file
  layers_lines,     \* the lines of the layer list input file
  dependencies,     \* result of parse_dot_file
  package_layers,   \* result of parse_layers_file
  combined_data,    \* result of combine_data
  report,           \* the lines of the interchange report written
  packages_data,    \* result of parse_combined_output
  \* the graph store
  store,            \* [nodes, rels]
  \* import_to_neo4j.py main(): position and locals of the current run
  pc,               \* "idle", "list", "clear", "constraints", "parse",
                    \* "import_data", "import", "verify", "finally"
  args,             \* the parsed command line
  queue,            \* statements import_data has still to issue
  issued,           \* statements issued to the store in this run, with outcome
  error,            \* the exception propagating out of the try block
  success,          \* the completion message was printed
  closed,           \* number of calls of importer.close() in this run
  runs,             \* number of runs started
  base              \* the store before the import that is being (re)run

textVars ==
  <<tpc, dot_lines, layers_lines, dependencies, package_layers,
    combined_data, report>>

runVars ==
  <<store, pc, args, queue, issued, error, success, closed, runs,
    base>>

vars == <<textVars, packages_data, runVars>>

\* --------------------------------------------------------------------------
\* Inputs of the importer
\* --------------------------------------------------------------------------

\* namespaces of the command line: the empty string and a name
Namespaces == { <<>>, <<"o">> }

NameA == <<"a">>

NameB == <<"b">>

LayerX == <<"x">>

\* a layer that has the name of a package
LayerB == <<"b">>

Entry(name, deps, layers) ==
  [k |-> name, v |-> [dependencies |-> deps, layers |-> layers]]

\* combined records the reports on disk were written from: a cycle between
\* two packages, and one package with two layers, one of them of its own
\* name, a dependency that has no record and a self-dependency
RecordsAB ==
  << Entry(NameA, <<NameB>>, <<LayerX>>), Entry(NameB, <<NameA>>, <<>>) >>

RecordsB ==
  << Entry(NameB, <<NameA, NameB>>, <<LayerX, LayerB>>) >>

\* the reports on disk, by path
Files ==
  [ ab |-> output_combined_data(RecordsAB),
    b  |-> output_combined_data(RecordsB) ]

\* what parse_combined_output returns for each report on disk
ParsedFiles == [f \in DOMAIN Files |-> parse_combined_output(Files[f])]

\* a path with no file behind it
MissingFile == "missing"

Paths == DOMAIN Files \cup {MissingFile}

\* the command lines argparse accepts (--namespace is required)
ArgsSet ==
  [input_file : Paths, namespace : Namespaces, clear : BOOLEAN,
   clear_all : BOOLEAN, list_namespaces : BOOLEAN]

\* the statements of create_constraints, in order
ConstraintStatements ==
  << Stmt("CREATE_CONSTRAINT", <<"package_name_namespace">>, <<>>, None),
     Stmt("CREATE_CONSTRAINT", <<"layer_name_namespace">>, <<>>, None),
     Stmt("CREATE_INDEX", <<"package_namespace">>, <<>>, None),
     Stmt("CREATE_INDEX", <<"layer_namespace">>, <<>>, None) >>

\* the number of queries of verify_import
VerifyQueries == 5

\* the statements that change the store or its schema
MutatingOps ==
  {"CLEAR", "CREATE_CONSTRAINT", "CREATE_INDEX", "MERGE_LAYER",
   "MERGE_PACKAGE", "BELONGS_TO", "DEPENDS_ON"}

Issued(stmt, ok) == [stmt |-> stmt, ok |-> ok]

NoBase ==
  [input_file |-> MissingFile, namespace |-> None, store |-> EmptyStore,
   interrupted |-> FALSE, prefix |-> 0]

\* the command line of no run
NoArgs ==
  [input_file |-> MissingFile, namespace |-> None, clear |-> FALSE,
   clear_all |-> FALSE, list_namespaces |-> FALSE]

RunBlank ==
  /\ store = EmptyStore
  /\ pc = "idle"
  /\ args = NoArgs
  /\ queue = <<>>
  /\ issued = <<>>
  /\ error = "none"
  /\ success = FALSE
  /\ closed = 0
  /\ runs = 0
  /\ base = NoBase

\* --------------------------------------------------------------------------
\* Inputs of the combiner
\* --------------------------------------------------------------------------

\* all sequences over S of length at most n
RECURSIVE SeqsUpTo(_, _)
SeqsUpTo(S, n) ==
  IF n = 0 THEN {<<>>}
  ELSE LET shorter == SeqsUpTo(S, n - 1)
       IN  shorter \cup {Append(s, x) : s \in shorter, x \in S}

\* the line  "<from>" -> "<to>";  of the edge list
EdgeLine(from, to) ==
  <<Quote>> \o from \o <<Quote, " ", "-", ">", " ", Quote>> \o to
    \o <<Quote, ";">>

\* raw package names of the pipeline inputs
RawNames == { <<"a">>, Lib32Prefix \o <<"a">>, <<"b", "(", "c">> }

\* lines of the edge list: edges between the raw names, and a directive line
EdgeLines ==
  {EdgeLine(f, t) : f \in RawNames, t \in RawNames}
    \cup { <<"d", "i", "g", "r", "a", "p", "h", " ", "d">> }

\* lines of the layer list: two headers, two layer lines, an annotation
LayerLines ==
  { <<"a", ":">>,
    Lib32Prefix \o <<"b", ":">>,
    <<" ", " ", "x", " ", " ", "p">>,
    <<"y", ",", "z">>,
    NoteMark \o <<" ", "n">> }

\* lines of a layer list read on its own: the lines above, a second spelling
\* of a header, a header whose name is the prefix alone, and a blank line
LayerFileLines ==
  LayerLines \cup
    { Lib32Prefix \o <<"a", ":">>, Lib32Prefix \o <<":">>, <<>> }

\* lines of a report read on its own, in any order: two Package lines, a
\* Layers line, the two Dependencies lines and two dependency lines
ReportLines ==
  { PackageMark \o NameA,
    PackageMark \o NameB,
    Indent2 \o LayersMark \o LayerX,
    Indent2 \o DependenciesMark,
    Indent2 \o DependenciesNone,
    Indent4 \o DepMark \o NameA \o LayerUnknown,
    Indent4 \o DepMark \o NameB \o LayersOpen \o LayerX \o <<")">> }

\* pieces raw names are concatenated from, for the normalization
Pieces == { <<"l", "i", "b", "3", "2">>, <<"-">>, <<"f">> }

PieceNames == {Concat(s) : s \in SeqsUpTo(Pieces, MaxPieces) \ {<<>>}}

\* --------------------------------------------------------------------------
\* combine_dependencies.py main(), one action per call
\* --------------------------------------------------------------------------

TextBlank ==
  /\ tpc = "start"
  /\ dependencies = <<>>
  /\ package_layers = <<>>
  /\ combined_data = <<>>
  /\ report = <<>>

\* the pipeline on every pair of bounded inputs
InitText ==
  /\ dot_lines \in SeqsUpTo(EdgeLines, MaxEdges)
  /\ layers_lines \in SeqsUpTo(LayerLines, MaxLayerLines)
  /\ TextBlank
  /\ packages_data = <<>>
  /\ RunBlank

\* the pipeline on one raw name, as edge source and target and as layer header
InitNorm ==
  /\ \E raw \in PieceNames :
       /\ dot_lines = <<EdgeLine(raw, raw)>>
       /\ layers_lines = <<raw \o <<":">>, <<" ", " ", "x">> >>
  /\ TextBlank
  /\ packages_data = <<>>
  /\ RunBlank

\* the pipeline on a layer list alone, the edge list being empty
InitLayers ==
  /\ dot_lines = <<>>
  /\ layers_lines \in SeqsUpTo(LayerFileLines, MaxLayerFile)
  /\ TextBlank
  /\ packages_data = <<>>
  /\ RunBlank

\* the reader on a report of any lines, the combiner not having run
InitReader ==
  /\ dot_lines = <<>>
  /\ layers_lines = <<>>
  /\ dependencies = <<>>
  /\ package_layers = <<>>
  /\ combined_data = <<>>
  /\ report \in SeqsUpTo(ReportLines, MaxReportLines)
  /\ tpc = "written"
  /\ packages_data = <<>>
  /\ RunBlank

ParseDotFile ==
  /\ tpc = "start"
  /\ dependencies' = parse_dot_file(dot_lines)
  /\ tpc' = "dot"
  /\ UNCHANGED <<dot_lines, layers_lines, package_layers, combined_data,
                 report, packages_data, runVars>>

ParseLayersFile ==
  /\ tpc = "dot"
  /\ package_layers' = parse_layers_file(layers_lines)
  /\ tpc' = "layers"
  /\ UNCHANGED <<dot_lines, layers_lines, dependencies, combined_data,
                 report, packages_data, runVars>>

CombineData ==
  /\ tpc = "layers"
  /\ combined_data' = combine_data(dependencies, package_layers)
  /\ tpc' = "combined"
  /\ UNCHANGED <<dot_lines, layers_lines, dependencies, package_layers,
                 report, packages_data, runVars>>

OutputCombinedData ==
  /\ tpc = "combined"
  /\ report' = output_combined_data(combined_data)
  /\ tpc' = "written"
  /\ UNCHANGED <<dot_lines, layers_lines, dependencies, package_layers,
                 combined_data, packages_data, runVars>>

\* the importer reads the report back
ReadReport ==
  /\ tpc = "written"
  /\ packages_data' = parse_combined_output(report)
  /\ tpc' = "read"
  /\ UNCHANGED <<dot_lines, layers_lines, dependencies, package_layers,
                 combined_data, report, runVars>>

NextText ==
  \/ ParseDotFile
  \/ ParseLayersFile
  \/ CombineData
  \/ OutputCombinedData
  \/ ReadReport

SpecText == InitText /\ [][NextText]_vars

SpecNorm == InitNorm /\ [][NextText]_vars

SpecLayers == InitLayers /\ [][NextText]_vars

SpecReader == InitReader /\ [][ReadReport]_vars

\* --------------------------------------------------------------------------
\* Properties of the combiner and of the interchange format
\* --------------------------------------------------------------------------

EmptyRecord == [dependencies |-> <<>>, layers |-> <<>>]

Targets == UNION {dependencies[i].v : i \in DOMAIN dependencies}

Combined == tpc \in {"combined", "written", "read"}

\* C4: round trip. Reading back the report written from the combined records
\* yields the combined records: the same names, and for each name the same
\* dependency list and the same layer list.
RoundTrip == tpc = "read" => DictEq(packages_data, combined_data)

\* C6: closure completeness. Every dependency target of the parsed dependency
\* mapping is a key of the combined records, and a target with no edges and
\* no layers of its own has the record ([], []).
ClosureComplete ==
  Combined =>
    \A d \in Targets :
      /\ d \in Keys(combined_data)
      /\ (d \notin Keys(dependencies) /\ d \notin Keys(package_layers))
           => Get(combined_data, d, None) = EmptyRecord

\* C6 witness: the combiner ran on an input with a target that is neither a
\* source nor a layer list entry
ClosureCompleteWitness ==
  /\ tpc = "combined"
  /\ \E d \in Targets :
       /\ d \notin Keys(dependencies) /\ d \notin Keys(package_layers)
       /\ Get(combined_data, d, None) = EmptyRecord

Parsed == tpc \in {"layers", "combined", "written", "read"}

\* the names the two parsers produced
ParsedNames == Keys(dependencies) \cup Targets \cup Keys(package_layers)

\* C7: normalization idempotence. A name a parser has normalized is left
\* unchanged by normalizing it again.
NormalizationIdempotent ==
  Parsed => \A name \in ParsedNames : RemoveLib32(name) = name

\* --------------------------------------------------------------------------
\* import_to_neo4j.py main(), one action per call or statement
\* --------------------------------------------------------------------------

Init ==
  /\ tpc = "start"
  /\ dot_lines = <<>>
  /\ layers_lines = <<>>
  /\ TextBlank
  /\ packages_data = <<>>
  /\ RunBlank

\* this run repeats the import that was interrupted: the same file into the
\* same namespace, with no clear before it
Resumes(a) ==
  /\ base.interrupted
  /\ a.input_file = base.input_file
  /\ a.namespace = base.namespace
  /\ ~a.clear /\ ~a.clear_all /\ ~a.list_namespaces

\* (mutant) the clear flags are looked at before the list flag
StartClearsFirst ==
  /\ pc = "idle"
  /\ runs < MaxRuns
  /\ \E a \in ArgsSet :
       /\ args' = a
       /\ pc' = IF a.clear_all \/ a.clear THEN "clear"
                ELSE IF a.list_namespaces THEN "list"
                ELSE "constraints"
       /\ base' = IF Resumes(a) THEN base
                  ELSE [base EXCEPT !.interrupted = FALSE]
  /\ runs' = runs + 1
  /\ error' = "none"
  /\ success' = FALSE
  /\ closed' = 0
  /\ UNCHANGED <<textVars, packages_data, queue, issued, store>>

\* main() up to the try block: the command line is parsed and the importer
\* constructed
Start ==
  /\ pc = "idle"
  /\ runs < MaxRuns
  /\ \E a \in ArgsSet :
       /\ args' = a
       /\ pc' = IF a.list_namespaces THEN "list"
                ELSE IF a.clear_all \/ a.clear THEN "clear"
                ELSE "constraints"
       /\ base' = IF Resumes(a) THEN base
                  ELSE [base EXCEPT !.interrupted = FALSE]
  /\ runs' = runs + 1
  /\ error' = "none"
  /\ success' = FALSE
  /\ closed' = 0
  /\ UNCHANGED <<textVars, packages_data, queue, issued, store>>

\* importer.list_namespaces(); return
ListNamespaces ==
  /\ pc = "list"
  /\ \E ok \in BOOLEAN :
       /\ issued' = Append(issued, Issued(Stmt("LIST", <<>>, <<>>, None), ok))
       /\ error' = IF ok THEN "none" ELSE "ServiceUnavailable"
  /\ pc' = "finally"
  /\ UNCHANGED <<textVars, packages_data, store, args, queue,
                 success, closed, runs, base>>

\* importer.clear_database() or importer.clear_database(args.namespace)
ClearDatabase ==
  /\ pc = "clear"
  /\ LET namespace == IF args.clear_all THEN None ELSE args.namespace
         stmt == Stmt("CLEAR", <<>>, <<>>, namespace)
     IN  \/ /\ store' = clear_database(store, namespace)
            /\ issued' = Append(issued, Issued(stmt, TRUE))
            /\ pc' = "constraints"
            /\ UNCHANGED error
         \/ /\ issued' = Append(issued, Issued(stmt, FALSE))
            /\ error' = "ServiceUnavailable"
            /\ pc' = "finally"
            /\ UNCHANGED store
  /\ UNCHANGED <<textVars, packages_data, args, queue, success,
                 closed, runs, base>>

\* the statements create_constraints issues when the statements of oks
\* succeed: a failure is swallowed by the bare except around it, and a failure
\* of the first index statement skips the second
ConstraintsIssued(oks) ==
  LET all == [i \in 1..4 |-> Issued(ConstraintStatements[i], oks[i])]
  IN  IF oks[3] THEN all ELSE SubSeq(all, 1, 3)

\* importer.create_constraints()
CreateConstraints ==
  /\ pc = "constraints"
  /\ \E oks \in [1..4 -> BOOLEAN] :
       issued' = issued \o ConstraintsIssued(oks)
  /\ pc' = "parse"
  /\ UNCHANGED <<textVars, packages_data, store, args, queue, error,
                 success, closed, runs, base>>

\* importer.parse_combined_output(args.input_file)
ParseCombinedOutput ==
  /\ pc = "parse"
  /\ IF args.input_file \in DOMAIN Files
     THEN /\ packages_data' = parse_combined_output(Files[args.input_file])
          /\ pc' = "import_data"
          /\ UNCHANGED error
     ELSE /\ error' = "FileNotFoundError"
          /\ pc' = "finally"
          /\ UNCHANGED packages_data
  /\ UNCHANGED <<textVars, store, args, queue, issued, success,
                 closed, runs, base>>

\* import_data up to its first statement: all_layers is collected and is
\* iterated in some order
ImportDataBegin ==
  /\ pc = "import_data"
  /\ \E order \in Orders(AllLayers(packages_data)) :
       queue' = ImportStatements(packages_data, args.namespace, order)
  /\ pc' = IF queue' = <<>> THEN "verify" ELSE "import"
  /\ base' = IF Resumes(args) THEN base
             ELSE [input_file |-> args.input_file,
                   namespace |-> args.namespace,
                   store |-> store, interrupted |-> FALSE, prefix |-> 0]
  /\ UNCHANGED <<textVars, packages_data, store, args, issued,
                 error, success, closed, runs>>

\* the number of statements import_data has issued in this run
ImportIssued ==
  Cardinality({i \in DOMAIN issued : issued[i].stmt.op \in
                 {"MERGE_LAYER", "MERGE_PACKAGE", "BELONGS_TO",
                  "DEPENDS_ON"}})

\* the import is cut short after the statements issued so far
Cut == IF base.interrupted THEN base
       ELSE [base EXCEPT !.interrupted = TRUE, !.prefix = ImportIssued]

\* one session.run of import_data: the statement takes effect, or it fails
\* and the exception leaves import_data
ImportStatement ==
  /\ pc = "import"
  /\ queue # <<>>
  /\ \/ /\ store' = Execute(store, Head(queue))
        /\ issued' = Append(issued, Issued(Head(queue), TRUE))
        /\ queue' = Tail(queue)
        /\ pc' = IF queue' = <<>> THEN "verify" ELSE "import"
        /\ UNCHANGED <<error, base>>
     \/ /\ issued' = Append(issued, Issued(Head(queue), FALSE))
        /\ error' = "ServiceUnavailable"
        /\ pc' = "finally"
        /\ base' = Cut
        /\ UNCHANGED <<store, queue>>
  /\ UNCHANGED <<textVars, packages_data, args, success, closed,
                 runs>>

\* the locals of main() are gone when the process has ended
LocalsGone ==
  /\ args' = NoArgs
  /\ packages_data' = <<>>
  /\ queue' = <<>>
  /\ issued' = <<>>

\* the process is terminated between two statements of import_data
Interrupt ==
  /\ pc = "import"
  /\ pc' = "idle"
  /\ base' = Cut
  /\ LocalsGone
  /\ UNCHANGED <<textVars, store, error, success, closed, runs>>

\* importer.verify_import(args.namespace) and the completion message: the
\* queries up to the first that fails are issued
VerifyImport ==
  /\ pc = "verify"
  /\ \E failing \in 0..VerifyQueries :
       LET n == IF failing = 0 THEN VerifyQueries ELSE failing
           stmt == Stmt("COUNT", <<>>, <<>>, args.namespace)
       IN  /\ issued' = issued \o
                          [i \in 1..n |-> Issued(stmt, i # failing)]
           /\ error' = IF failing = 0 THEN "none" ELSE "ServiceUnavailable"
           /\ success' = (failing = 0)
  /\ pc' = "finally"
  /\ UNCHANGED <<textVars, packages_data, store, args, queue,
                 closed, runs, base>>

\* (mutant) close() as the last statement of the try block, with no finally
\* clause: an exception leaves main() without the call
CloseAfterTry ==
  /\ pc = "finally"
  /\ closed' = IF error = "none" THEN closed + 1 ELSE closed
  /\ pc' = "idle"
  /\ LocalsGone
  /\ UNCHANGED <<textVars, store, error, success, runs, base>>

\* finally: importer.close(); main() returns, or the exception, if any,
\* reaches the caller
Finally ==
  /\ pc = "finally"
  /\ closed' = closed + 1
  /\ pc' = "idle"
  /\ LocalsGone
  /\ UNCHANGED <<textVars, store, error, success, runs, base>>

Next ==
  \/ Start
  \/ ListNamespaces
  \/ ClearDatabase
  \/ CreateConstraints
  \/ ParseCombinedOutput
  \/ ImportDataBegin
  \/ ImportStatement
  \/ Interrupt
  \/ VerifyImport
  \/ Finally

Spec == Init /\ [][Next]_vars

\* --------------------------------------------------------------------------
\* Properties of the importer
\* --------------------------------------------------------------------------

Nodes == BagToSet(store.nodes)

Rels == BagToSet(store.rels)

\* C1: import idempotence. For every report, every namespace and every store
\* a sequence of runs can leave behind, importing twice in a row leaves the
\* store with the same nodes and relationships as importing once.
ImportIdempotent ==
  pc = "idle" =>
    \A f \in DOMAIN Files, ns \in Namespaces :
      LET once == import_data(store, ParsedFiles[f], ns)
      IN  import_data(once, ParsedFiles[f], ns) = once

\* C1 witness: a run has imported a report with relationships to completion,
\* and importing the same report again would leave the store as it is
ImportIdempotentWitness ==
  /\ pc = "idle" /\ success
  /\ \E r \in Rels : r.type = "DEPENDS_ON"
  /\ \E r \in Rels : r.type = "BELONGS_TO"
  /\ \E f \in DOMAIN Files, ns \in Namespaces :
       import_data(store, ParsedFiles[f], ns) = store

\* C2: namespace isolation. Every relationship joins two nodes of the store
\* whose namespace is the namespace attribute of the relationship.
NamespaceIsolation ==
  \A r \in Rels :
    /\ r.from \in Nodes /\ r.to \in Nodes
    /\ r.from.namespace = r.namespace
    /\ r.to.namespace = r.namespace

\* C2 witness: the same two package names depend on each other in two
\* namespaces
NamespaceIsolationWitness ==
  \E r1 \in Rels, r2 \in Rels :
    /\ r1.type = "DEPENDS_ON" /\ r2.type = "DEPENDS_ON"
    /\ r1.from.name = r2.from.name /\ r1.to.name = r2.to.name
    /\ r1.from.name # r1.to.name
    /\ r1.namespace # r2.namespace

\* C3: a missing source file aborts the run before any store mutation: when
\* the run aborts on the file that cannot be opened, no clear, constraint,
\* index or upsert statement has been issued.
MissingFileBeforeMutation ==
  error = "FileNotFoundError" =>
    \A i \in DOMAIN issued : issued[i].stmt.op \notin MutatingOps

\* the nodes and relationships outside a namespace
Outside(s, namespace) ==
  [nodes |-> {n \in BagToSet(s.nodes) : n.namespace # namespace},
   rels  |-> {r \in BagToSet(s.rels) :
                r.from.namespace # namespace /\ r.to.namespace # namespace}]

\* C5: clear with a namespace given (--clear without --clear-all) deletes the
\* nodes of that namespace and leaves every node and relationship of every
\* other namespace in place, for every namespace of the command line.
ClearIsScoped ==
  [][ (pc = "clear" /\ ~args.clear_all /\ pc' = "constraints") =>
        /\ Outside(store', args.namespace) = Outside(store, args.namespace)
        /\ \A n \in BagToSet(store'.nodes) : n.namespace # args.namespace
    ]_vars

\* the statement at the head of the queue names a dependency with no Package
\* node in the namespace
DanglingNext ==
  /\ pc = "import" /\ queue # <<>>
  /\ Head(queue).op = "DEPENDS_ON"
  /\ MatchNodes(store.nodes, "Package", Head(queue).b,
                Head(queue).namespace) = {}

\* C8: dangling dependency tolerance. A DEPENDS_ON statement whose dependency
\* has no Package node in the namespace raises no error, creates no
\* relationship and no node, and the import goes on to the next statement.
DanglingTolerated ==
  [][ (DanglingNext /\ issued' = Append(issued, Issued(Head(queue), TRUE))) =>
        /\ store' = store
        /\ error' = "none"
        /\ queue' = Tail(queue)
        /\ pc' \in {"import", "verify"}
    ]_vars

\* C8 witness: a DEPENDS_ON statement ran for a dependency that has no
\* Package node, and the import went on to a later statement
DanglingToleratedWitness ==
  \E i \in DOMAIN issued :
    /\ issued[i].ok /\ issued[i].stmt.op = "DEPENDS_ON"
    /\ MatchNodes(store.nodes, "Package", issued[i].stmt.b,
                  issued[i].stmt.namespace) = {}
    /\ \E j \in DOMAIN issued :
         j > i /\ issued[j].ok /\ issued[j].stmt.op = "DEPENDS_ON"

\* C9: safe resume. When an import that was cut short after some of its
\* statements is run again to completion, the store is the one a single
\* uninterrupted import produces from the store before the first attempt.
SafeResume ==
  (pc = "verify" /\ base.interrupted) =>
    store = import_data(base.store, packages_data, args.namespace)

\* C9 witness: the first attempt was cut after some but not all statements
\* had taken effect, and the second attempt has completed
SafeResumeWitness ==
  /\ pc = "verify" /\ base.interrupted
  /\ base.prefix > 1
  /\ base.prefix < Len(queue) + ImportIssued
  /\ \E r \in Rels : r.type = "DEPENDS_ON"

\* C10: a store failure is fatal. A statement that fails is the last one the
\* run issues, its exception propagates, and success is not reported.
FailureIsFatal ==
  \A i \in DOMAIN issued :
    ~issued[i].ok => (i = Len(issued) /\ error # "none" /\ ~success)

\* C11: the connection is released on every exit path. A run that returns
\* after listing the namespaces, that raises at any step or that completes
\* goes to the finally clause; the finally clause calls close, for the first
\* and only time of the run, and the run ends; a statement is issued only
\* while close has not been called. (A process terminated from outside is not
\* an exit path of main() and is outside the claim.)
ConnectionReleased ==
  [][ /\ ( \/ pc = "list"
           \/ (pc # "idle" /\ error = "none" /\ error' # "none")
           \/ (~success /\ success') ) => pc' = "finally"
      /\ (pc \notin {"idle", "import"} /\ pc' = "idle") => pc = "finally"
      /\ pc = "finally" => (closed = 0 /\ closed' = 1 /\ pc' = "idle")
      /\ Len(issued') > Len(issued) => (closed = 0 /\ closed' = 0)
    ]_vars

\* C11 witness: a run that failed in import_data after some of its statements
\* has ended with close called once
ConnectionReleasedWitness ==
  /\ pc = "idle" /\ closed = 1
  /\ error = "ServiceUnavailable"
  /\ base.interrupted /\ base.prefix > 0

\* the part of a store that is not of a namespace: the nodes of other
\* namespaces with their multiplicity, and the relationships that carry
\* another namespace or touch a node of another namespace
OtherNamespaces(s, namespace) ==
  [nodes |-> BagOnly(s.nodes,
                     {n \in BagToSet(s.nodes) : n.namespace # namespace}),
   rels  |-> BagOnly(s.rels,
                     {r \in BagToSet(s.rels) :
                        \/ r.namespace # namespace
                        \/ r.from.namespace # namespace
                        \/ r.to.namespace # namespace})]

\* C12: import leaves other namespaces unchanged. No statement of import_data
\* into a namespace adds, removes or changes a node or a relationship of any
\* other namespace, also when the names imported exist there.
ImportLeavesOthers ==
  [][ pc = "import" =>
        OtherNamespaces(store', args.namespace)
          = OtherNamespaces(store, args.namespace)
    ]_vars

\* C12 witness: an import has created a package, a layer and a relationship
\* in one namespace while another namespace holds a package and a layer of
\* the same names
ImportLeavesOthersWitness ==
  /\ pc = "verify"
  /\ \E p \in Nodes, l \in Nodes, q \in Nodes, m \in Nodes :
       /\ p.label = "Package" /\ p.namespace = args.namespace
       /\ l.label = "Layer" /\ l.namespace = args.namespace
       /\ q.label = "Package" /\ q.name = p.name
       /\ m.label = "Layer" /\ m.name = l.name
       /\ q.namespace # args.namespace /\ m.namespace # args.namespace
       /\ \E i \in DOMAIN issued :
            /\ issued[i].ok /\ issued[i].stmt.op = "MERGE_PACKAGE"
            /\ issued[i].stmt.a = p.name
       /\ \E r \in Rels : r.from = p /\ r.to = l

\* C13: node identity is (kind, name, namespace). In every store the runs
\* reach, every node and every relationship is there once, two relationships
\* of one type between one ordered pair of nodes are the same relationship,
\* and after an import every package of the report has its Package node and
\* every layer its Layer node, also when a package and a layer share a name.
NodeIdentity ==
  /\ \A n \in Nodes : CopiesIn(n, store.nodes) = 1
  /\ \A r \in Rels : CopiesIn(r, store.rels) = 1
  /\ \A r1 \in Rels, r2 \in Rels :
       (r1.type = r2.type /\ r1.from = r2.from /\ r1.to = r2.to) => r1 = r2
  /\ pc = "verify" =>
       /\ \A name \in Keys(packages_data) :
            Node("Package", name, args.namespace) \in Nodes
       /\ \A name \in AllLayers(packages_data) :
            Node("Layer", name, args.namespace) \in Nodes

\* C13 witness: a second run has imported, into a namespace that held them
\* already, a package and a layer of one name, the package belonging to the
\* layer and depending on itself
NodeIdentityWitness ==
  /\ pc = "verify" /\ runs = 2
  /\ \E name \in Keys(packages_data) \cap AllLayers(packages_data) :
       LET p == Node("Package", name, args.namespace)
           l == Node("Layer", name, args.namespace)
       IN  /\ p \in BagToSet(base.store.nodes)
           /\ l \in BagToSet(base.store.nodes)
           /\ Rel("BELONGS_TO", p, l, args.namespace) \in Rels
           /\ Rel("DEPENDS_ON", p, p, args.namespace) \in Rels

\* the raw name of the first header line of the layer list
RawHeader == SubSeq(layers_lines[1], 1, Len(layers_lines[1]) - 1)

\* C14: normalization strips only the prefix at the start of a name. For the
\* raw name given as edge source, edge target and layer header: if it does
\* not start with lib32- it is the name the parsers produce, unchanged, and
\* if it does, the parsers produce what they produce for its unprefixed
\* spelling.
PrefixOnly ==
  (Parsed /\ layers_lines # <<>> /\ dot_lines = <<EdgeLine(RawHeader, RawHeader)>>) =>
    LET raw == RawHeader
        rest == SubSeq(raw, Len(Lib32Prefix) + 1, Len(raw))
    IN  /\ ~StartsWith(raw, Lib32Prefix) =>
             /\ Keys(dependencies) = {raw}
             /\ Targets = {raw}
             /\ Keys(package_layers) = {raw}
        /\ (StartsWith(raw, Lib32Prefix) /\ rest # <<>>) =>
             /\ dependencies = parse_dot_file(<<EdgeLine(rest, rest)>>)
             /\ package_layers =
                  parse_layers_file(<<rest \o <<":">>, layers_lines[2]>>)

\* a line of the layer list that is blank or an annotation
IsIgnored(raw) ==
  \/ Strip(raw) = <<>>
  \/ \E mark \in {WarningMark, NoteMark, SummaryMark} :
       StartsWith(Strip(raw), mark)

\* a header line: a name followed by a colon
IsHeader(raw) == ~IsIgnored(raw) /\ EndsWith(Strip(raw), <<":">>)

\* the name a header line normalizes to
HeaderName(raw) == RemoveLib32(SubSeq(Strip(raw), 1, Len(Strip(raw)) - 1))

\* the first whitespace-delimited token of a line
FirstToken(raw) ==
  SubSeq(Strip(raw), 1, FirstIn(Strip(raw), 1, Whitespace) - 1)

\* the index of the last header line before line i, or 0
HeaderBefore(lines, i) ==
  LET hs == {h \in 1..(i - 1) : IsHeader(lines[h])}
  IN  IF hs = {} THEN 0 ELSE CHOOSE h \in hs : \A g \in hs : g <= h

\* the indices of the layer lines that follow a header normalizing to name,
\* up to the next header
LayerLinesOf(lines, name) ==
  {i \in DOMAIN lines :
     /\ ~IsIgnored(lines[i]) /\ ~IsHeader(lines[i])
     /\ HeaderBefore(lines, i) # 0
     /\ HeaderName(lines[HeaderBefore(lines, i)]) = name}

\* their first tokens, in file order
LayersOf(lines, name) ==
  LET at == LayerLinesOf(lines, name)
  IN  [k \in 1..Cardinality(at) |->
         FirstToken(lines[CHOOSE i \in at :
                            Cardinality({j \in at : j < i}) = k - 1])]

\* the names of the header lines
HeaderNames(lines) ==
  {HeaderName(lines[i]) : i \in {h \in DOMAIN lines : IsHeader(lines[h])}}

\* C15: layer list parser accumulation. For every sequence of lines and every
\* name, the list the parser produces for the name is, in file order and with
\* repeats, the first tokens of the layer lines that follow a header
\* normalizing to that name up to the next header.
LayerAccumulation ==
  Parsed =>
    \A name \in HeaderNames(layers_lines) \cup Keys(package_layers) :
      Get(package_layers, name, <<>>) = LayersOf(layers_lines, name)

\* C16: import never removes or alters existing data. In every step of a run
\* other than the clear, every node and every relationship of the store is
\* still in the store afterwards, as it was and as often as it was.
ImportKeeps ==
  [][ pc # "clear" =>
        /\ store.nodes \sqsubseteq store'.nodes
        /\ store.rels \sqsubseteq store'.rels
    ]_vars

\* C16 witness: an import with no clear before it, into a store that held
\* nodes and relationships of the namespace, has added a node and a
\* relationship
ImportKeepsWitness ==
  /\ pc = "verify" /\ ~args.clear /\ ~args.clear_all
  /\ \E n \in BagToSet(base.store.nodes) : n.namespace = args.namespace
  /\ \E r \in BagToSet(base.store.rels) : r.namespace = args.namespace
  /\ \E n \in Nodes : ~BagIn(n, base.store.nodes)
  /\ \E r \in Rels : ~BagIn(r, base.store.rels)

\* a 'Package: ' line of the report
IsPackageLine(raw) == StartsWith(RStrip(raw), PackageMark)

\* the name on a 'Package: ' line
PackageOf(raw) == Strip(Replace(RStrip(raw), PackageMark, <<>>))

\* a line beginning with '- '
IsDashLine(raw) == StartsWith(Strip(raw), DepMark)

\* the index of the last 'Package: ' line before line i, or 0
PackageBefore(lines, i) ==
  LET ps == {p \in 1..(i - 1) : IsPackageLine(lines[p])}
  IN  IF ps = {} THEN 0 ELSE CHOOSE p \in ps : \A q \in ps : q <= p

\* line i is inside the dependencies block of the most recent 'Package: '
\* line: a 'Dependencies:' line lies between the two, with no
\* 'Dependencies: none' after it
InBlock(lines, i) ==
  /\ PackageBefore(lines, i) # 0
  /\ \E d \in (PackageBefore(lines, i) + 1)..(i - 1) :
       /\ Strip(lines[d]) = DependenciesMark
       /\ \A e \in (d + 1)..(i - 1) : Strip(lines[e]) # DependenciesNone

\* the dependency names of the '- ' lines inside the dependencies block of
\* the last 'Package: ' line of a name, in file order
DependenciesOf(lines, name) ==
  LET ps == {p \in DOMAIN lines :
               IsPackageLine(lines[p]) /\ PackageOf(lines[p]) = name}
      last == CHOOSE p \in ps : \A q \in ps : q <= p
      at == {i \in DOMAIN lines :
               /\ IsDashLine(lines[i]) /\ DepMatch(RStrip(lines[i])).matched
               /\ PackageBefore(lines, i) = last
               /\ InBlock(lines, i)}
  IN  [k \in 1..Cardinality(at) |->
         DepMatch(RStrip(lines[CHOOSE i \in at :
                   Cardinality({j \in at : j < i}) = k - 1])).g1]

\* C17: reader block tracking. For every sequence of report lines the records
\* are those of the 'Package: ' lines, and the dependencies of a record are
\* the names of the '- ' lines inside the dependencies block of the most
\* recent 'Package: ' line of its name: none from a line before the first
\* 'Package: ' line, before the 'Dependencies:' line, after
\* 'Dependencies: none' or after the next 'Package: ' line.
BlockTracking ==
  tpc = "read" =>
    /\ Keys(packages_data) =
         {PackageOf(report[p]) :
            p \in {q \in DOMAIN report : IsPackageLine(report[q])}}
    /\ \A name \in Keys(packages_data) :
         Get(packages_data, name, None).dependencies
           = DependenciesOf(report, name)

\* C17 witness: the reader has read a report with a '- ' line outside every
\* dependencies block and one inside the block of a package, which is in the
\* record of that package
BlockTrackingWitness ==
  /\ tpc = "read"
  /\ \E i \in DOMAIN report : IsDashLine(report[i]) /\ ~InBlock(report, i)
  /\ \E i \in DOMAIN report :
       /\ IsDashLine(report[i]) /\ InBlock(report, i)
       /\ Get(packages_data, PackageOf(report[PackageBefore(report, i)]),
              None).dependencies # <<>>

\* C18: import ordering. When import_data issues a DEPENDS_ON statement every
\* record of the report has its Package node, no Package node is merged
\* after a DEPENDS_ON statement, and when import_data is through there is a
\* DEPENDS_ON relationship from every record to each of its dependencies
\* that is a record of the report, itself and records later in the report
\* included.
PackagesBeforeDependencies ==
  /\ (pc = "import" /\ queue # <<>> /\ Head(queue).op = "DEPENDS_ON") =>
       \A name \in Keys(packages_data) :
         Node("Package", name, args.namespace) \in Nodes
  /\ \A i \in DOMAIN issued, j \in DOMAIN issued :
       (i < j /\ issued[i].stmt.op = "DEPENDS_ON")
         => issued[j].stmt.op # "MERGE_PACKAGE"
  /\ pc = "verify" =>
       \A i \in DOMAIN packages_data :
         \A k \in DOMAIN packages_data[i].v.dependencies :
           LET d == packages_data[i].v.dependencies[k]
           IN  d \in Keys(packages_data) =>
                 Rel("DEPENDS_ON",
                     Node("Package", packages_data[i].k, args.namespace),
                     Node("Package", d, args.namespace),
                     args.namespace) \in Rels

\* C18 witness: an import into a namespace that held no node has created the
\* two relationships of a cycle, the first record depending on the second
PackagesBeforeDependenciesWitness ==
  /\ pc = "verify"
  /\ \A n \in BagToSet(base.store.nodes) : n.namespace # args.namespace
  /\ Len(packages_data) = 2
  /\ packages_data[2].k \in
       {packages_data[1].v.dependencies[k] :
          k \in DOMAIN packages_data[1].v.dependencies}
  /\ \E r1 \in Rels, r2 \in Rels :
       /\ r1.type = "DEPENDS_ON" /\ r2.type = "DEPENDS_ON"
       /\ r1.namespace = args.namespace /\ r2.namespace = args.namespace
       /\ r1.from.name = packages_data[1].k /\ r1.to.name = packages_data[2].k
       /\ r2.from = r1.to /\ r2.to = r1.from

\* C19: listing the namespaces is read-only. In a run with the list flag the
\* store is never changed and no clear, constraint, index or upsert
\* statement is issued, whatever the clear flags.
ListIsReadOnly ==
  [][ (args.list_namespaces \/ args'.list_namespaces) =>
        /\ store' = store
        /\ \A i \in DOMAIN issued' : issued'[i].stmt.op \notin MutatingOps
    ]_vars

\* C19 witness: a run with the list flag and the clear-everything flag has
\* listed the namespaces of a store that holds nodes
ListIsReadOnlyWitness ==
  /\ pc = "finally"
  /\ args.list_namespaces /\ args.clear_all
  /\ Nodes # {}
  /\ \E i \in DOMAIN issued : issued[i].ok /\ issued[i].stmt.op = "LIST"

====
